---- MODULE Spec2Model ----
(***************************************************************************)
(* Model of the triage logic of src/views.py: validate_priority,           *)
(* calculate_priority_fallback, calculate_appointment and the add_patient  *)
(* handler that combines them with get_ai_recommendation.                  *)
(*                                                                         *)
(* Conventions                                                             *)
(*   - a Python str is a sequence of one-character strings;                *)
(*   - a JSON / Python value is a record [t, s, n]: t is the type tag,     *)
(*     s the characters of a str (or the one-character items of a list),   *)
(*     n a number in tenths (38.5 is 385, the int 110 is 1100);            *)
(*   - a raised exception is the string naming its class, "none" when the  *)
(*     call returns normally;                                              *)
(*   - a datetime is [date, hour, minute] with date a proleptic Gregorian  *)
(*     ordinal (date.toordinal); seconds and microseconds are taken as 0.  *)
(***************************************************************************)
EXTENDS Integers, Sequences, FiniteSets

VARIABLES pc, op, request, data, raw, priority, ai_date, ai, now, ret, patients, response

vars == <<pc, op, request, data, raw, priority, ai_date, ai, now, ret, patients, response>>

(***************************************************************************)
(* Bounds of the model.                                                    *)
(***************************************************************************)
\* an AI date lies at most this many days after today
MaxAhead == 9
\* priorities handed to calculate_appointment range over 0..MaxPriority
MaxPriority == 6

(***************************************************************************)
(* Python values.                                                          *)
(***************************************************************************)
Min(a, b) == IF a <= b THEN a ELSE b

Max(a, b) == IF a >= b THEN a ELSE b

PyNone == [t |-> "null", s |-> <<>>, n |-> 0]

PyStr(chars) == [t |-> "str", s |-> chars, n |-> 0]

PyInt(i) == [t |-> "int", s |-> <<>>, n |-> 10 * i]

PyFloat(tenths) == [t |-> "float", s |-> <<>>, n |-> tenths]

PyInf == [t |-> "inf", s |-> <<>>, n |-> 0]

PyList(items) == [t |-> "list", s |-> items, n |-> 0]

PyDict == [t |-> "dict", s |-> <<>>, n |-> 1]

Absent == [t |-> "absent", s |-> <<>>, n |-> 0]

\* bool(v): the truth value Python gives a value in `if v` / `not v`
Truthy(v) ==
    CASE v.t = "null" -> FALSE
      [] v.t = "str" -> Len(v.s) > 0
      [] v.t = "list" -> Len(v.s) > 0
      [] v.t = "int" -> v.n # 0
      [] v.t = "float" -> v.n # 0
      [] OTHER -> TRUE

DigitChars == <<"0", "1", "2", "3", "4", "5", "6", "7", "8", "9">>

IsDigit(c) == \E i \in 1..10 : DigitChars[i] = c

DigitVal(c) == (CHOOSE i \in 1..10 : DigitChars[i] = c) - 1

AllDigits(chars) == Len(chars) > 0 /\ \A i \in 1..Len(chars) : IsDigit(chars[i])

RECURSIVE DigitsVal(_)
DigitsVal(chars) ==
    IF Len(chars) = 0 THEN 0
    ELSE 10 * DigitsVal(SubSeq(chars, 1, Len(chars) - 1)) + DigitVal(chars[Len(chars)])

RECURSIVE LStrip(_)
LStrip(chars) ==
    IF Len(chars) > 0 /\ chars[1] = " " THEN LStrip(Tail(chars)) ELSE chars

RECURSIVE RStrip(_)
RStrip(chars) ==
    IF Len(chars) > 0 /\ chars[Len(chars)] = " "
    THEN RStrip(SubSeq(chars, 1, Len(chars) - 1)) ELSE chars

Strip(chars) == RStrip(LStrip(chars))

\* the sign and the unsigned remainder of a stripped numeric literal
SignOf(chars) == IF Len(chars) > 0 /\ chars[1] = "-" THEN -1 ELSE 1

Unsigned(chars) ==
    IF Len(chars) > 0 /\ (chars[1] = "-" \/ chars[1] = "+") THEN Tail(chars) ELSE chars

\* int(str): surrounding blanks and one sign are accepted, then digits only
IntOfStr(chars) ==
    LET body == Unsigned(Strip(chars))
    IN  IF AllDigits(body)
        THEN [exc |-> "none", n |-> SignOf(Strip(chars)) * DigitsVal(body)]
        ELSE [exc |-> "ValueError", n |-> 0]

\* truncation toward zero of a number held in tenths
Trunc(tenths) == IF tenths >= 0 THEN tenths \div 10 ELSE -((-tenths) \div 10)

\* int(v) for any value
PyIntOf(v) ==
    CASE v.t = "str" -> IntOfStr(v.s)
      [] v.t = "int" -> [exc |-> "none", n |-> Trunc(v.n)]
      [] v.t = "float" -> [exc |-> "none", n |-> Trunc(v.n)]
      [] v.t = "inf" -> [exc |-> "OverflowError", n |-> 0]
      [] OTHER -> [exc |-> "TypeError", n |-> 0]

\* position of the decimal point of a literal, 0 when there is none
DotPos(chars) ==
    IF \E i \in 1..Len(chars) : chars[i] = "."
    THEN CHOOSE i \in 1..Len(chars) : chars[i] = "." /\ \A j \in 1..(i - 1) : chars[j] # "."
    ELSE 0

\* float(str) in tenths: digits, optionally a point and at most one
\* fractional digit (the literals of the model carry no exponent)
FloatOfStr(chars) ==
    LET st == Strip(chars)
        body == Unsigned(st)
        dot == DotPos(body)
        whole == IF dot = 0 THEN body ELSE SubSeq(body, 1, dot - 1)
        frac == IF dot = 0 THEN <<>> ELSE SubSeq(body, dot + 1, Len(body))
        wellFormed == /\ Len(whole) + Len(frac) > 0
                      /\ Len(frac) <= 1
                      /\ \A i \in 1..Len(whole) : IsDigit(whole[i])
                      /\ \A i \in 1..Len(frac) : IsDigit(frac[i])
    IN  IF wellFormed
        THEN [exc |-> "none", inf |-> FALSE,
              n |-> SignOf(st) * (10 * DigitsVal(whole) + DigitsVal(frac))]
        ELSE [exc |-> "ValueError", inf |-> FALSE, n |-> 0]

\* float(v) for any value
PyFloatOf(v) ==
    CASE v.t = "str" -> FloatOfStr(v.s)
      [] v.t = "int" -> [exc |-> "none", inf |-> FALSE, n |-> v.n]
      [] v.t = "float" -> [exc |-> "none", inf |-> FALSE, n |-> v.n]
      [] v.t = "inf" -> [exc |-> "none", inf |-> TRUE, n |-> 0]
      [] OTHER -> [exc |-> "TypeError", inf |-> FALSE, n |-> 0]

(***************************************************************************)
(* validate_priority                                                       *)
(***************************************************************************)
NoTime == [date |-> 0, hour |-> 0, minute |-> 0]

Returned(p, appt) == [exc |-> "none", prio |-> p, appt |-> appt]

Raised(e) == [exc |-> e, prio |-> 0, appt |-> NoTime]

validate_priority(v) ==
    LET i == PyIntOf(v)
    IN  IF i.exc = "none" THEN Returned(Max(1, Min(5, i.n)), NoTime)
        ELSE IF i.exc \in {"ValueError", "TypeError"} THEN Returned(1, NoTime)
        ELSE Raised(i.exc)

(***************************************************************************)
(* calculate_priority_fallback                                             *)
(***************************************************************************)
emergency_keywords ==
    << <<"s", "e", "v", "e", "r", "e">>,
       <<"p", "a", "i", "n">>,
       <<"e", "m", "e", "r", "g", "e", "n", "c", "y">>,
       <<"u", "r", "g", "e", "n", "t">>,
       <<"b", "l", "e", "e", "d", "i", "n", "g">>,
       <<"u", "n", "c", "o", "n", "s", "c", "i", "o", "u", "s">>,
       <<"v", "o", "m", "i", "t", "i", "n", "g">>,
       <<"d", "i", "f", "f", "i", "c", "u", "l", "t", "y", " ",
         "b", "r", "e", "a", "t", "h", "i", "n", "g">> >>

UpperChars ==
    <<"A", "B", "C", "D", "E", "F", "G", "H", "I", "J", "K", "L", "M",
      "N", "O", "P", "Q", "R", "S", "T", "U", "V", "W", "X", "Y", "Z">>

LowerChars ==
    <<"a", "b", "c", "d", "e", "f", "g", "h", "i", "j", "k", "l", "m",
      "n", "o", "p", "q", "r", "s", "t", "u", "v", "w", "x", "y", "z">>

\* str.lower()
LowerChar(c) ==
    IF \E i \in 1..26 : UpperChars[i] = c
    THEN LowerChars[CHOOSE i \in 1..26 : UpperChars[i] = c]
    ELSE c

Lower(chars) == [i \in 1..Len(chars) |-> LowerChar(chars[i])]

\* `keyword in text` for two strs
Contains(text, keyword) ==
    \E i \in 1..(Len(text) - Len(keyword) + 1) :
        SubSeq(text, i, i + Len(keyword) - 1) = keyword

\* any(keyword in description.lower() for keyword in emergency_keywords)
HasEmergencyKeyword(chars) ==
    \E k \in 1..Len(emergency_keywords) : Contains(Lower(chars), emergency_keywords[k])

\* int(data['cancerStage'][0]): the exception raised, or the stage number
StageOf(v) ==
    CASE v.t = "absent" -> [exc |-> "KeyError", n |-> 0]
      [] v.t = "dict" -> [exc |-> "KeyError", n |-> 0]
      [] v.t \in {"str", "list"} ->
            IF Len(v.s) = 0 THEN [exc |-> "IndexError", n |-> 0]
            ELSE IntOfStr(<<v.s[1]>>)
      [] OTHER -> [exc |-> "TypeError", n |-> 0]

\* lines 202-206: the stage adjustment; exc is what escapes the try block
StageStep(d) ==
    LET st == StageOf(d["cancerStage"])
    IN  IF st.exc = "none" THEN [exc |-> "none", add |-> Min(st.n - 1, 3)]
        ELSE IF st.exc \in {"ValueError", "IndexError", "TypeError"}
             THEN [exc |-> "none", add |-> 0]
        ELSE [exc |-> st.exc, add |-> 0]

\* temp > 38.5 on a parsed float
TempHigh(f) == f.inf \/ f.n > 385

\* heart > 100 or heart < 60 on a parsed int
HeartAbnormal(n) == n > 100 \/ n < 60

\* lines 209-220: temperature and heart rate share one try block
VitalsStep(d) ==
    LET temp == IF d["temp"].t = "absent"
                THEN [exc |-> "KeyError", inf |-> FALSE, n |-> 0]
                ELSE PyFloatOf(d["temp"])
        heart == IF d["heart"].t = "absent"
                 THEN [exc |-> "KeyError", n |-> 0]
                 ELSE PyIntOf(d["heart"])
        tempAdd == IF TempHigh(temp) THEN 1 ELSE 0
    IN  IF temp.exc \in {"ValueError", "TypeError"} THEN [exc |-> "none", add |-> 0]
        ELSE IF temp.exc # "none" THEN [exc |-> temp.exc, add |-> 0]
        ELSE IF heart.exc \in {"ValueError", "TypeError"}
             THEN [exc |-> "none", add |-> tempAdd]
        ELSE IF heart.exc # "none" THEN [exc |-> heart.exc, add |-> 0]
        ELSE [exc |-> "none",
              add |-> tempAdd + (IF HeartAbnormal(heart.n) THEN 1 ELSE 0)]

\* lines 223-227: the keyword adjustment; a non-str has no lower()
KeywordStep(d) ==
    LET v == d["description"]
    IN  IF v.t = "absent" THEN [exc |-> "KeyError", add |-> 0]
        ELSE IF v.t # "str" THEN [exc |-> "AttributeError", add |-> 0]
        ELSE [exc |-> "none", add |-> IF HasEmergencyKeyword(v.s) THEN 1 ELSE 0]

calculate_priority_fallback(d) ==
    LET st == StageStep(d)
        vt == VitalsStep(d)
        kw == KeywordStep(d)
    IN  IF st.exc # "none" THEN Raised(st.exc)
        ELSE IF vt.exc # "none" THEN Raised(vt.exc)
        ELSE IF kw.exc # "none" THEN Raised(kw.exc)
        ELSE Returned(Min(1 + st.add + vt.add + kw.add, 5), NoTime)

(***************************************************************************)
(* Dates: datetime.strptime, date arithmetic, strftime                     *)
(***************************************************************************)
IsLeap(y) == y % 4 = 0 /\ (y % 100 # 0 \/ y % 400 = 0)

DaysInMonth(y, m) ==
    IF m = 2 THEN (IF IsLeap(y) THEN 29 ELSE 28)
    ELSE IF m \in {4, 6, 9, 11} THEN 30 ELSE 31

DaysBeforeYear(y) ==
    (y - 1) * 365 + (y - 1) \div 4 - (y - 1) \div 100 + (y - 1) \div 400

RECURSIVE DaysBeforeMonth(_, _)
DaysBeforeMonth(y, m) ==
    IF m = 1 THEN 0 ELSE DaysBeforeMonth(y, m - 1) + DaysInMonth(y, m - 1)

\* date(y, m, d).toordinal()
Ordinal(y, m, d) == DaysBeforeYear(y) + DaysBeforeMonth(y, m) + d

YearOf(o) ==
    CHOOSE y \in (o \div 366)..(o \div 365 + 1) :
        DaysBeforeYear(y) < o /\ o <= DaysBeforeYear(y + 1)

MonthOf(o) ==
    LET y == YearOf(o)
        n == o - DaysBeforeYear(y)
    IN  CHOOSE m \in 1..12 :
            DaysBeforeMonth(y, m) < n /\ n <= DaysBeforeMonth(y, m) + DaysInMonth(y, m)

DayOf(o) == o - DaysBeforeYear(YearOf(o)) - DaysBeforeMonth(YearOf(o), MonthOf(o))

DateTime(y, m, d, hh, mm) == [date |-> Ordinal(y, m, d), hour |-> hh, minute |-> mm]

\* dt + timedelta(days=k)
PlusDays(dt, k) == [dt EXCEPT !.date = @ + k]

\* datetime.combine(date, datetime.min.time())
Midnight(o) == [date |-> o, hour |-> 0, minute |-> 0]

\* the position of the first "-" at or after position from, 0 when none
DashFrom(chars, from) ==
    IF \E i \in from..Len(chars) : chars[i] = "-"
    THEN CHOOSE i \in from..Len(chars) :
            chars[i] = "-" /\ \A j \in from..(i - 1) : chars[j] # "-"
    ELSE 0

\* %m: 1[0-2] | 0[1-9] | [1-9]
MonthToken(tok) ==
    /\ Len(tok) \in {1, 2}
    /\ AllDigits(tok)
    /\ DigitsVal(tok) \in 1..12

\* %d: 3[01] | [12]\d | 0[1-9] | [1-9] | " "[1-9]
DayToken(tok) ==
    \/ Len(tok) \in {1, 2} /\ AllDigits(tok) /\ DigitsVal(tok) \in 1..31
    \/ Len(tok) = 2 /\ tok[1] = " " /\ IsDigit(tok[2]) /\ DigitVal(tok[2]) \in 1..9

\* datetime.strptime(chars, "%Y-%m-%d") for a str
strptime(chars) ==
    LET d2 == DashFrom(chars, 6)
        yTok == SubSeq(chars, 1, 4)
        mTok == SubSeq(chars, 6, d2 - 1)
        dTok == SubSeq(chars, d2 + 1, Len(chars))
        matches == /\ Len(chars) >= 8
                   /\ AllDigits(yTok)
                   /\ chars[5] = "-"
                   /\ d2 # 0
                   /\ MonthToken(mTok)
                   /\ DayToken(dTok)
        y == DigitsVal(yTok)
        m == DigitsVal(mTok)
        d == DigitsVal(Strip(dTok))
    IN  IF matches /\ y >= 1 /\ d <= DaysInMonth(y, m)
        THEN [exc |-> "none", date |-> Ordinal(y, m, d)]
        ELSE [exc |-> "ValueError", date |-> 0]

Pad2(n) == <<DigitChars[(n \div 10) + 1], DigitChars[(n % 10) + 1]>>

Pad4(n) == Pad2(n \div 100) \o Pad2(n % 100)

\* date.strftime("%Y-%m-%d")
FormatDate(o) == Pad4(YearOf(o)) \o <<"-">> \o Pad2(MonthOf(o)) \o <<"-">> \o Pad2(DayOf(o))

\* datetime.strftime("%Y-%m-%d %H:%M:%S")
strftime(dt) ==
    FormatDate(dt.date) \o <<" ">> \o Pad2(dt.hour) \o <<":">> \o Pad2(dt.minute)
        \o <<":", "0", "0">>

(***************************************************************************)
(* calculate_appointment                                                   *)
(***************************************************************************)
\* days_offset with the entries of priorities 1 and 2 exchanged
days_offset_swapped(p) ==
    CASE p = 1 -> 10
      [] p = 2 -> 14
      [] p = 3 -> 5
      [] p = 4 -> 1
      [] p = 5 -> 0
      [] OTHER -> 14

days_offset(p) ==
    CASE p = 1 -> 14
      [] p = 2 -> 10
      [] p = 3 -> 5
      [] p = 4 -> 1
      [] p = 5 -> 0
      [] OTHER -> 14

\* AiDateStep without the check that the AI date is not in the past
AiDateStep_accepts_past(p, aiDate, t) ==
    LET parsed == strptime(aiDate.s)
        gap == parsed.date - t.date
    IN  IF ~Truthy(aiDate) THEN [exc |-> "none", return |-> FALSE, appt |-> NoTime]
        ELSE IF aiDate.t # "str" THEN [exc |-> "TypeError", return |-> FALSE, appt |-> NoTime]
        ELSE IF parsed.exc # "none" THEN [exc |-> "none", return |-> FALSE, appt |-> NoTime]
        ELSE IF p >= 4 /\ gap > 2 THEN [exc |-> "none", return |-> TRUE, appt |-> PlusDays(t, 1)]
        ELSE IF p = 3 /\ gap > 7 THEN [exc |-> "none", return |-> TRUE, appt |-> PlusDays(t, 5)]
        ELSE [exc |-> "none", return |-> TRUE, appt |-> Midnight(parsed.date)]

\* AiDateStep with both limits compared with >= instead of >
AiDateStep_limits_inclusive(p, aiDate, t) ==
    LET parsed == strptime(aiDate.s)
        gap == parsed.date - t.date
    IN  IF ~Truthy(aiDate) THEN [exc |-> "none", return |-> FALSE, appt |-> NoTime]
        ELSE IF aiDate.t # "str" THEN [exc |-> "TypeError", return |-> FALSE, appt |-> NoTime]
        ELSE IF parsed.exc # "none" THEN [exc |-> "none", return |-> FALSE, appt |-> NoTime]
        ELSE IF ~(parsed.date >= t.date) THEN [exc |-> "none", return |-> FALSE, appt |-> NoTime]
        ELSE IF p >= 4 /\ gap >= 2 THEN [exc |-> "none", return |-> TRUE, appt |-> PlusDays(t, 1)]
        ELSE IF p = 3 /\ gap >= 7 THEN [exc |-> "none", return |-> TRUE, appt |-> PlusDays(t, 5)]
        ELSE [exc |-> "none", return |-> TRUE, appt |-> Midnight(parsed.date)]

\* lines 236-251: "return" is whether the AI branch returns, exc what escapes
AiDateStep(p, aiDate, t) ==
    LET parsed == strptime(aiDate.s)
        gap == parsed.date - t.date
    IN  IF ~Truthy(aiDate) THEN [exc |-> "none", return |-> FALSE, appt |-> NoTime]
        ELSE IF aiDate.t # "str" THEN [exc |-> "TypeError", return |-> FALSE, appt |-> NoTime]
        ELSE IF parsed.exc # "none" THEN [exc |-> "none", return |-> FALSE, appt |-> NoTime]
        ELSE IF ~(parsed.date >= t.date) THEN [exc |-> "none", return |-> FALSE, appt |-> NoTime]
        ELSE IF p >= 4 /\ gap > 2 THEN [exc |-> "none", return |-> TRUE, appt |-> PlusDays(t, 1)]
        ELSE IF p = 3 /\ gap > 7 THEN [exc |-> "none", return |-> TRUE, appt |-> PlusDays(t, 5)]
        ELSE [exc |-> "none", return |-> TRUE, appt |-> Midnight(parsed.date)]

\* lines 253-270: the offset table, then the after-hours rule
FallbackStep(p, t) ==
    IF p >= 4 /\ t.hour >= 17
    THEN [date |-> t.date + 1, hour |-> 9, minute |-> 0]
    ELSE PlusDays(t, days_offset(p))

\* calculate_appointment with the after-hours rule applied to every result
calculate_appointment_after_hours_always(p, aiDate, t) ==
    LET aiStep == AiDateStep(p, aiDate, t)
    IN  IF aiStep.exc # "none" THEN Raised(aiStep.exc)
        ELSE IF p >= 4 /\ t.hour >= 17
             THEN Returned(p, [date |-> t.date + 1, hour |-> 9, minute |-> 0])
        ELSE IF aiStep.return THEN Returned(p, aiStep.appt)
        ELSE Returned(p, PlusDays(t, days_offset(p)))

calculate_appointment(p, aiDate, t) ==
    LET aiStep == AiDateStep(p, aiDate, t)
    IN  IF aiStep.exc # "none" THEN Raised(aiStep.exc)
        ELSE IF aiStep.return THEN Returned(p, aiStep.appt)
        ELSE Returned(p, FallbackStep(p, t))

(***************************************************************************)
(* get_ai_recommendation and add_patient                                   *)
(***************************************************************************)
required_fields ==
    <<"name", "email", "age", "cancerStage", "therapytype",
      "temp", "heart", "blood", "description">>

Fields == {required_fields[i] : i \in 1..Len(required_fields)}

\* ai_data.get(key): None for a key the object lacks
DictGet(v) == IF v.t = "absent" THEN PyNone ELSE v

\* The external service as get_ai_recommendation sees it.  kind is
\*   "request_error"  requests raised (connection, timeout, HTTP status)
\*   "bad_structure"  the reply lacks candidates/content/parts/text
\*   "json"           the text holds a JSON object; priority and appointment
\*                    are its members (Absent when the key is missing)
\*   "text"           no decodable JSON object; priority and appointment are
\*                    what extract_priority_from_text / extract_date_from_text
\*                    find in the text
get_ai_recommendation(reply) ==
    LET vp == validate_priority(reply.priority)
    IN  CASE reply.kind \in {"request_error", "bad_structure"} ->
                [exc |-> "Exception", priority |-> 0, appointment |-> PyNone]
          [] reply.kind = "json" ->
                IF vp.exc # "none"
                THEN [exc |-> "Exception", priority |-> 0, appointment |-> PyNone]
                ELSE [exc |-> "none", priority |-> vp.prio,
                      appointment |-> DictGet(reply.appointment)]
          [] OTHER ->
                [exc |-> "none", priority |-> Trunc(reply.priority.n),
                 appointment |-> reply.appointment]

\* lines 48-53: the first required field that is missing or falsy, "" if none
MissingField(d) ==
    IF \E i \in 1..Len(required_fields) :
            d[required_fields[i]].t = "absent" \/ ~Truthy(d[required_fields[i]])
    THEN required_fields[
            CHOOSE i \in 1..Len(required_fields) :
                /\ d[required_fields[i]].t = "absent" \/ ~Truthy(d[required_fields[i]])
                /\ \A j \in 1..(i - 1) :
                      ~(d[required_fields[j]].t = "absent" \/ ~Truthy(d[required_fields[j]]))]
    ELSE ""

\* lines 56-64 once the three calls are made: rec is what
\* get_ai_recommendation gave, aiAppt the appointment computed from it, fb the
\* fallback priority; the except branch runs when either of the first two raised
TriageResult(rec, aiAppt, fb, t) ==
    IF rec.exc = "none" /\ aiAppt.exc = "none" THEN aiAppt
    ELSE IF fb.exc # "none" THEN Raised(fb.exc)
    ELSE calculate_appointment(fb.prio, PyNone, t)

\* lines 58-64 for a given outcome of get_ai_recommendation
TriageWith(rec, d, t) ==
    TriageResult(rec, calculate_appointment(rec.priority, rec.appointment, t),
                 calculate_priority_fallback(d), t)

\* lines 56-64: the AI recommendation, or the fallback when anything in the
\* try block raises
Triage(d, reply, t) == TriageWith(get_ai_recommendation(reply), d, t)

Row(d, p, appt) == [data |-> d, priority |-> p, appointment |-> appt]

\* Patient(...).save(): the row is appended to the patient table
save(table, row) == Append(table, row)

NoResponse == [status |-> 0, success |-> FALSE, priority |-> 0, appointment |-> <<>>, error |-> ""]

JsonResponse(status, success, p, appt, error) ==
    [status |-> status, success |-> success, priority |-> p, appointment |-> appt, error |-> error]

(***************************************************************************)
(* Inputs                                                                  *)
(***************************************************************************)
NowDates == {Ordinal(2024, 1, 10), Ordinal(2024, 2, 27)}

NowTimes == {<<0, 0>>, <<10, 0>>, <<16, 59>>, <<17, 0>>, <<18, 0>>, <<23, 30>>}

Nows == {[date |-> d, hour |-> hm[1], minute |-> hm[2]] : d \in NowDates, hm \in NowTimes}

RawPriorities ==
    {PyInt(i) : i \in (-1)..MaxPriority}
        \cup {PyNone, PyInf, PyDict, PyFloat(39), PyFloat(-15),
              PyStr(<<"3">>), PyStr(<<" ", "7", " ">>), PyStr(<<"-", "2">>),
              PyStr(<<"3", ".", "0">>), PyStr(<<"h", "i", "g", "h">>), PyStr(<<>>),
              PyList(<<"3">>)}

StageValues ==
    {PyStr(<<"S", "t", "a", "g", "e", " ", "4">>), PyStr(<<"4">>), PyStr(<<"1">>),
     PyStr(<<"0">>), PyStr(<<"9">>), PyStr(<<"3", "b">>), PyStr(<<>>),
     PyInt(4), PyList(<<"2">>), PyDict}

TempValues ==
    {PyFloat(385), PyFloat(386), PyFloat(390), PyInt(37), PyStr(<<"3", "9", ".", "0">>),
     PyStr(<<"h", "o", "t">>), PyNone, PyInf}

HeartValues ==
    {PyInt(110), PyInt(100), PyInt(60), PyInt(59), PyFloat(595),
     PyStr(<<"1", "1", "0">>), PyStr(<<"1", "1", "0", ".", "0">>), PyNone, PyInf}

DescriptionValues ==
    {PyStr(<<"S", "e", "v", "e", "r", "e", " ", "P", "A", "I", "N">>),
     PyStr(<<"s", "e", "v", "e", "r", "e", " ", "p", "a", "i", "n">>),
     PyStr(<<"b", "l", "e", "e", "d", "i", "n", "g">>),
     PyStr(<<"p", "a", "i", "n", "t", "i", "n", "g">>),
     PyStr(<<"m", "i", "l", "d", " ", "c", "o", "u", "g", "h">>),
     PyInt(5), PyList(<<"p">>)}

MkData(stage, temp, heart, description) ==
    [f \in Fields |->
        CASE f = "cancerStage" -> stage
          [] f = "temp" -> temp
          [] f = "heart" -> heart
          [] f = "description" -> description
          [] f = "age" -> PyInt(54)
          [] OTHER -> PyStr(<<"x">>)]

NoData == [f \in Fields |-> Absent]

AiDateValues(t) ==
    {PyStr(FormatDate(t.date + k)) : k \in (-1)..MaxAhead}
        \cup {PyNone, PyStr(<<>>), PyInt(0), PyInt(20240111), PyList(<<"x">>),
              PyStr(<<"2", "0", "2", "4", "-", "0", "2", "-", "0", "1">>),
              PyStr(<<"2", "0", "2", "4", "-", "1", "-", "5">>),
              PyStr(<<"2", "0", "2", "4", "-", "1", "3", "-", "4", "5">>),
              PyStr(<<"2", "0", "2", "4", "-", "0", "2", "-", "3", "0">>),
              PyStr(<<"2", "0", "2", "4", "-", "0", "1", "-", "1", "1", " ">>),
              PyStr(<<"1", "1", "/", "0", "1", "/", "2", "0", "2", "4">>),
              PyStr(<<"s", "o", "o", "n">>)}

NoReply == [kind |-> "none", priority |-> PyNone, appointment |-> PyNone]

\* what the model of Gemini may put under "priority" and "appointment"
ReplyPriorities ==
    {PyInt(1), PyInt(3), PyInt(4), PyInt(5), PyInt(9), PyStr(<<"h", "i", "g", "h">>),
     Absent, PyInf}

ReplyAppointments(t) ==
    {PyStr(FormatDate(t.date + k)) : k \in {-1, 0, 1, MaxAhead}}
        \cup {Absent, PyStr(<<"2", "0", "2", "4", "-", "1", "3", "-", "4", "5">>), PyInt(20240111), PyList(<<"x">>)}

\* extract_priority_from_text yields 1..5, extract_date_from_text a
\* dddd-dd-dd match or None
Replies(t) ==
    {[kind |-> "request_error", priority |-> PyNone, appointment |-> PyNone],
     [kind |-> "bad_structure", priority |-> PyNone, appointment |-> PyNone]}
        \cup {[kind |-> "json", priority |-> p, appointment |-> a] :
                p \in ReplyPriorities, a \in ReplyAppointments(t)}
        \cup {[kind |-> "text", priority |-> PyInt(p), appointment |-> a] :
                p \in {1, 4},
                a \in {PyNone, PyStr(FormatDate(t.date + 1)), PyStr(<<"2", "0", "2", "4", "-", "1", "3", "-", "4", "5">>)}}

BaseData == MkData(PyStr(<<"4">>), PyFloat(386), PyInt(110), PyStr(<<"m", "i", "l", "d", " ", "c", "o", "u", "g", "h">>))

\* request bodies: complete ones, and ones with a field missing or falsy
Bodies ==
    {MkData(stage, temp, heart, description) :
        stage \in {PyStr(<<"S", "t", "a", "g", "e", " ", "4">>), PyStr(<<"4">>), PyStr(<<"0">>), PyDict},
        temp \in {PyFloat(386), PyStr(<<"h", "o", "t">>)},
        heart \in {PyInt(110), PyInt(60)},
        description \in {PyStr(<<"S", "e", "v", "e", "r", "e", " ", "P", "A", "I", "N">>), PyStr(<<"m", "i", "l", "d", " ", "c", "o", "u", "g", "h">>), PyInt(5)}}
        \cup {[BaseData EXCEPT ![f] = v] :
                f \in {"name", "cancerStage", "heart", "description"},
                v \in {Absent, PyStr(<<>>), PyInt(0)}}

RequestTimes == {t \in Nows : t.hour \in {10, 18}}

Requests ==
    {[method |-> "POST", valid_json |-> TRUE], [method |-> "POST", valid_json |-> FALSE],
     [method |-> "GET", valid_json |-> TRUE]}

\* the patient table a request may find: empty, or holding an earlier row
ExistingRow ==
    Row(BaseData, 5, [date |-> Ordinal(2024, 1, 9), hour |-> 8, minute |-> 15])

Tables == {<<>>, <<ExistingRow>>}

(***************************************************************************)
(* The state machine: Init draws one call with its inputs (and, for        *)
(* add_patient, the table the request finds); the action of that call      *)
(* runs it to completion.                                                  *)
(***************************************************************************)
NoRequest == [method |-> "", valid_json |-> FALSE]

InitValidatePriority ==
    /\ op = "validate_priority"
    /\ raw \in RawPriorities
    /\ request = NoRequest /\ data = NoData /\ priority = 0 /\ ai_date = PyNone
    /\ ai = NoReply /\ now = NoTime /\ patients = <<>>

InitCalculatePriorityFallback ==
    /\ op = "calculate_priority_fallback"
    /\ data \in {MkData(stage, temp, heart, description) :
                    stage \in StageValues, temp \in TempValues,
                    heart \in HeartValues, description \in DescriptionValues}
    /\ request = NoRequest /\ raw = PyNone /\ priority = 0 /\ ai_date = PyNone
    /\ ai = NoReply /\ now = NoTime /\ patients = <<>>

InitCalculateAppointment ==
    /\ op = "calculate_appointment"
    /\ now \in Nows
    /\ priority \in 0..MaxPriority
    /\ ai_date \in AiDateValues(now)
    /\ request = NoRequest /\ data = NoData /\ raw = PyNone
    /\ ai = NoReply /\ patients = <<>>

InitAddPatient ==
    /\ op = "add_patient"
    /\ request \in Requests
    /\ data \in (IF request = [method |-> "POST", valid_json |-> TRUE]
                 THEN Bodies ELSE {NoData})
    /\ now \in RequestTimes
    /\ ai \in Replies(now)
    /\ patients \in Tables
    /\ raw = PyNone /\ priority = 0 /\ ai_date = PyNone

Init ==
    /\ pc = "call"
    /\ ret = Raised("none")
    /\ response = NoResponse
    /\ \/ InitValidatePriority
       \/ InitCalculatePriorityFallback
       \/ InitCalculateAppointment
       \/ InitAddPatient

\* validate_priority(raw)
ValidatePriority ==
    /\ pc = "call" /\ op = "validate_priority"
    /\ ret' = validate_priority(raw)
    /\ pc' = "done"
    /\ UNCHANGED <<op, request, data, raw, priority, ai_date, ai, now, patients, response>>

\* calculate_priority_fallback(data)
CalculatePriorityFallback ==
    /\ pc = "call" /\ op = "calculate_priority_fallback"
    /\ ret' = calculate_priority_fallback(data)
    /\ pc' = "done"
    /\ UNCHANGED <<op, request, data, raw, priority, ai_date, ai, now, patients, response>>

\* calculate_appointment(priority, ai_date) with datetime.now() = now
CalculateAppointment ==
    /\ pc = "call" /\ op = "calculate_appointment"
    /\ ret' = calculate_appointment(priority, ai_date, now)
    /\ pc' = "done"
    /\ UNCHANGED <<op, request, data, raw, priority, ai_date, ai, now, patients, response>>

\* lines 41-93 once the required fields are checked and the triage is done:
\* what the handler answers, returns from the triage, and leaves in the table
Respond(req, missing, triage, d, table) ==
    IF req.method # "POST"
    THEN [response |-> JsonResponse(405, FALSE, 0, <<>>, "Invalid request method"),
          ret |-> Raised("none"), patients |-> table]
    ELSE IF ~req.valid_json
    THEN [response |-> JsonResponse(400, FALSE, 0, <<>>, "Invalid JSON data"),
          ret |-> Raised("none"), patients |-> table]
    ELSE IF missing # ""
    THEN [response |-> JsonResponse(400, FALSE, 0, <<>>, "Missing required field: " \o missing),
          ret |-> Raised("none"), patients |-> table]
    ELSE IF triage.exc # "none"
    \* str(e) is stood for by the class of the exception
    THEN [response |-> JsonResponse(400, FALSE, 0, <<>>, triage.exc),
          ret |-> triage, patients |-> table]
    ELSE [response |-> JsonResponse(200, TRUE, triage.prio, strftime(triage.appt), ""),
          ret |-> triage,
          patients |-> save(table, Row(d, triage.prio, triage.appt))]

add_patient(req, d, reply, t, table) ==
    Respond(req, MissingField(d), Triage(d, reply, t), d, table)

\* add_patient(request): the whole handler, from the method check to the
\* saved row and the JSON response
AddPatient ==
    /\ pc = "call" /\ op = "add_patient"
    /\ pc' = "done"
    /\ \E out \in {add_patient(request, data, ai, now, patients)} :
          /\ response' = out.response
          /\ ret' = out.ret
          /\ patients' = out.patients
    /\ UNCHANGED <<op, request, data, raw, priority, ai_date, ai, now>>

Next == ValidatePriority \/ CalculatePriorityFallback \/ CalculateAppointment \/ AddPatient

Spec == Init /\ [][Next]_vars

(***************************************************************************)
(* Properties                                                              *)
(***************************************************************************)

\* C1 (as stated): a call of calculate_appointment with priority >= 4 made
\* at hour >= 17 returns tomorrow at 09:00 whatever ai_date is.
C1_Original ==
    (pc = "done" /\ op = "calculate_appointment" /\ ret.exc = "none"
        /\ priority >= 4 /\ now.hour >= 17)
    => ret.appt = [date |-> now.date + 1, hour |-> 9, minute |-> 0]

\* C1 (amended): with priority >= 4 at hour >= 17 the result is tomorrow at
\* 09:00 exactly when no AI date is accepted (ai_date falsy, or a str that
\* does not parse or names a date before today); an accepted AI date returns
\* from step 1 untouched by the after-hours rule: now + 1 day when it is more
\* than 2 days out, the AI date at midnight otherwise.
C1_Amended ==
    (pc = "done" /\ op = "calculate_appointment" /\ ret.exc = "none"
        /\ priority >= 4 /\ now.hour >= 17 /\ (ai_date.t = "str" \/ ~Truthy(ai_date)))
    => LET parsed == strptime(ai_date.s)
           accepted == Truthy(ai_date) /\ parsed.exc = "none" /\ parsed.date >= now.date
       IN  IF accepted
           THEN ret.appt = (IF parsed.date - now.date > 2
                            THEN [now EXCEPT !.date = @ + 1]
                            ELSE [date |-> parsed.date, hour |-> 0, minute |-> 0])
           ELSE ret.appt = [date |-> now.date + 1, hour |-> 9, minute |-> 0]

\* C1 witness: priority 4 at 2024-01-10 18:00 with ai_date "2024-01-11"
\* returned 2024-01-11 00:00.
C1_Witness ==
    /\ pc = "done" /\ op = "calculate_appointment"
    /\ priority = 4
    /\ now = DateTime(2024, 1, 10, 18, 0)
    /\ ai_date = PyStr(<<"2", "0", "2", "4", "-", "0", "1", "-", "1", "1">>)
    /\ ret = Returned(4, DateTime(2024, 1, 11, 0, 0))

\* C2 (as stated): the timestamp calculate_appointment returns is >= now,
\* or it is the after-hours result, tomorrow at 09:00.
C2_Original ==
    (pc = "done" /\ op = "calculate_appointment" /\ ret.exc = "none")
    => \/ now.date < ret.appt.date
       \/ now.date = ret.appt.date /\ now.hour < ret.appt.hour
       \/ now.date = ret.appt.date /\ now.hour = ret.appt.hour
             /\ now.minute <= ret.appt.minute
       \/ ret.appt = [date |-> now.date + 1, hour |-> 9, minute |-> 0]

\* C2 (amended): the calendar date of the returned timestamp is >= today's
\* date, and the timestamp is >= now except when the accepted AI date is
\* today, where today at midnight is returned.
C2_Amended ==
    (pc = "done" /\ op = "calculate_appointment" /\ ret.exc = "none")
    => /\ ret.appt.date >= now.date
       /\ \/ now.date < ret.appt.date
          \/ now.date = ret.appt.date /\ now.hour < ret.appt.hour
          \/ now.date = ret.appt.date /\ now.hour = ret.appt.hour
                /\ now.minute <= ret.appt.minute
          \/ /\ ai_date.t = "str"
             /\ strptime(ai_date.s) = [exc |-> "none", date |-> now.date]
             /\ ret.appt = [date |-> now.date, hour |-> 0, minute |-> 0]

\* C2 witness: an AI date equal to today, asked for at 10:00, returned today
\* at midnight.
C2_Witness ==
    /\ pc = "done" /\ op = "calculate_appointment"
    /\ now = DateTime(2024, 1, 10, 10, 0)
    /\ ai_date = PyStr(<<"2", "0", "2", "4", "-", "0", "1", "-", "1", "0">>)
    /\ ret.exc = "none"
    /\ ret.appt = DateTime(2024, 1, 10, 0, 0)

\* C3 (as stated): calculate_priority_fallback returns p with 1 <= p <= 5,
\* and stage "Stage 4", temp 39.0, heart 110, "severe pain" gives 5.
C3_Claim ==
    (pc = "done" /\ op = "calculate_priority_fallback" /\ ret.exc = "none")
    => /\ ret.prio \in 1..5
       /\ data = MkData(PyStr(<<"S", "t", "a", "g", "e", " ", "4">>), PyFloat(390), PyInt(110), PyStr(<<"s", "e", "v", "e", "r", "e", " ", "p", "a", "i", "n">>))
            => ret.prio = 5

\* C4 (as stated): calculate_priority_fallback, validate_priority and
\* calculate_appointment never raise.
C4_Claim ==
    (pc = "done" /\ op \in {"calculate_priority_fallback", "validate_priority",
                           "calculate_appointment"})
    => ret.exc = "none"

\* C5: when ai_date parses and its date is >= today, the result is now + 1
\* day if priority >= 4 and the date is more than 2 days out, else now + 5
\* days if priority = 3 and the date is more than 7 days out, else the AI
\* date at midnight; so an AI date that is returned is at most 2 days out
\* for priority >= 4 and at most 7 days out for priority 3.
C5_AiDateOrder ==
    (pc = "done" /\ op = "calculate_appointment" /\ ai_date.t = "str"
        /\ strptime(ai_date.s).exc = "none" /\ strptime(ai_date.s).date >= now.date)
    => LET aiDay == strptime(ai_date.s).date
           gap == aiDay - now.date
           atMidnight == [date |-> aiDay, hour |-> 0, minute |-> 0]
       IN  /\ ret.exc = "none"
           /\ (priority >= 4 /\ gap > 2) => ret.appt = [now EXCEPT !.date = @ + 1]
           /\ (priority = 3 /\ gap > 7) => ret.appt = [now EXCEPT !.date = @ + 5]
           /\ (priority >= 4 /\ gap <= 2) => ret.appt = atMidnight
           /\ (priority = 3 /\ gap <= 7) => ret.appt = atMidnight
           /\ priority <= 2 => ret.appt = atMidnight

\* C5 witness: priority 3 at 2024-01-10 10:00 with ai_date "2024-02-01"
\* returned 2024-01-15 10:00.
C5_Witness ==
    /\ pc = "done" /\ op = "calculate_appointment"
    /\ priority = 3
    /\ now = DateTime(2024, 1, 10, 10, 0)
    /\ ai_date = PyStr(<<"2", "0", "2", "4", "-", "0", "2", "-", "0", "1">>)
    /\ ret = Returned(3, DateTime(2024, 1, 15, 10, 0))

\* C6: when ai_date is absent (falsy), or a str that fails to parse or names
\* a date before today, and not (priority >= 4 and hour >= 17), the result
\* is now + N days, N from {1:14, 2:10, 3:5, 4:1, 5:0} and 14 for any other
\* priority.
C6_FallbackTable ==
    (pc = "done" /\ op = "calculate_appointment"
        /\ \/ ~Truthy(ai_date)
           \/ /\ ai_date.t = "str"
              /\ \/ strptime(ai_date.s).exc # "none"
                 \/ strptime(ai_date.s).date < now.date
        /\ ~(priority >= 4 /\ now.hour >= 17))
    => /\ ret.exc = "none"
       /\ ret.appt.hour = now.hour /\ ret.appt.minute = now.minute
       /\ ret.appt.date - now.date =
            (IF priority = 1 THEN 14
             ELSE IF priority = 2 THEN 10
             ELSE IF priority = 3 THEN 5
             ELSE IF priority = 4 THEN 1
             ELSE IF priority = 5 THEN 0
             ELSE 14)

\* C6 witness: priority 2 at 2024-01-10 10:00 with the past ai_date
\* "2024-01-09" returned 2024-01-20 10:00.
C6_Witness ==
    /\ pc = "done" /\ op = "calculate_appointment"
    /\ priority = 2
    /\ now = DateTime(2024, 1, 10, 10, 0)
    /\ ai_date = PyStr(<<"2", "0", "2", "4", "-", "0", "1", "-", "0", "9">>)
    /\ ret = Returned(2, DateTime(2024, 1, 20, 10, 0))

\* C7 (as stated): validate_priority returns an integer in [1,5] for every
\* input: 1 when the value cannot be coerced to an integer, the value
\* clamped to [1,5] otherwise.
C7_Claim ==
    (pc = "done" /\ op = "validate_priority")
    => /\ ret.exc = "none"
       /\ ret.prio \in 1..5
       /\ PyIntOf(raw).exc # "none" => ret.prio = 1
       /\ PyIntOf(raw).exc = "none" =>
            ret.prio = (IF PyIntOf(raw).n < 1 THEN 1
                        ELSE IF PyIntOf(raw).n > 5 THEN 5 ELSE PyIntOf(raw).n)

\* C8 (as stated): the result of calculate_priority_fallback is 1 plus four
\* adjustments capped at 5, each adjustment decided by its own field alone:
\* min(digit - 1, 3) for the stage, 1 for temp > 38.5, 1 for heart > 100 or
\* < 60, 1 for an emergency keyword.
C8_Claim ==
    (pc = "done" /\ op = "calculate_priority_fallback" /\ ret.exc = "none")
    => LET stage == StageOf(data["cancerStage"])
           temp == PyFloatOf(data["temp"])
           heart == PyIntOf(data["heart"])
           stageAdd == IF stage.exc = "none"
                       THEN (IF stage.n - 1 < 3 THEN stage.n - 1 ELSE 3) ELSE 0
           tempAdd == IF temp.exc = "none" /\ (temp.inf \/ temp.n > 385) THEN 1 ELSE 0
           heartAdd == IF heart.exc = "none" /\ (heart.n > 100 \/ heart.n < 60) THEN 1 ELSE 0
           wordAdd == IF HasEmergencyKeyword(data["description"].s) THEN 1 ELSE 0
           total == 1 + stageAdd + tempAdd + heartAdd + wordAdd
       IN  ret.prio = (IF total > 5 THEN 5 ELSE total)

\* C9 (as stated): a POST of valid JSON with every required field present
\* whose AI recommendation fails succeeds: one patient is stored and
\* returned with priority calculate_priority_fallback(data) and appointment
\* calculate_appointment(priority).
C9_Claim ==
    [][(pc = "call" /\ op = "add_patient"
            /\ request = [method |-> "POST", valid_json |-> TRUE]
            /\ MissingField(data) = ""
            /\ get_ai_recommendation(ai).exc # "none")
        => /\ response'.status = 200 /\ response'.success
           /\ Len(patients') = Len(patients) + 1
           /\ response'.priority = calculate_priority_fallback(data).prio
           /\ patients'[Len(patients')].priority = calculate_priority_fallback(data).prio
           /\ patients'[Len(patients')].appointment =
                calculate_appointment(calculate_priority_fallback(data).prio, PyNone, now).appt]_vars

\* C10 (as stated): when get_ai_recommendation returns a priority in 1..5
\* the stored priority is that priority, whatever the appointment value is.
C10_Claim ==
    (pc = "done" /\ op = "add_patient" /\ response.success
        /\ get_ai_recommendation(ai).exc = "none"
        /\ get_ai_recommendation(ai).priority \in 1..5)
    => /\ response.priority = get_ai_recommendation(ai).priority
       /\ patients[Len(patients)].priority = get_ai_recommendation(ai).priority

====
